---------------------------- MODULE Spec2Model ----------------------------
(***************************************************************************)
(* A model of clean-html.py: the two HTML-to-XML converters                *)
(* (StructuralHTMLConverter and HTMLToXMLConverter), their class-token     *)
(* classifier, attribute filters, text normalisers and tree builders.      *)
(*                                                                         *)
(* Strings are sequences of one-character strings, so that prefix,         *)
(* substring, strip and regular-expression matching are computed and not   *)
(* assumed.  A parsed document is the list of the soup's top-level nodes;  *)
(* a node is a record of one shape for text and element nodes alike.       *)
(***************************************************************************)
EXTENDS Integers, Sequences, FiniteSets, TLC

VARIABLES
    config,     \* the converter object's fields (self.*), fixed at construction
    doc,        \* the parsed input: the soup's children
    out,        \* the root returned by convert (None before)
    out2,       \* the root returned by convert on the serialised first output
    phase,      \* "parsed" -> "converted" -> "reconverted"; "token" -> "classified"
    token,      \* a class token handed to is_semantic_class
    verdict     \* what is_semantic_class returned for token

vars == <<config, doc, out, out2, phase, token, verdict>>

(***************************************************************************)
(* Bounds of the model.                                                    *)
(***************************************************************************)
MaxTokLen == 4
MaxKids == 2
MaxAttrs == 2
MaxClassToks == 2
MaxMetas == 3

(***************************************************************************)
(* Characters and Python's str methods.                                    *)
(***************************************************************************)
LowerSeq == <<"a","b","c","d","e","f","g","h","i","j","k","l","m",
              "n","o","p","q","r","s","t","u","v","w","x","y","z">>
UpperSeq == <<"A","B","C","D","E","F","G","H","I","J","K","L","M",
              "N","O","P","Q","R","S","T","U","V","W","X","Y","Z">>
DigitSeq == <<"0","1","2","3","4","5","6","7","8","9">>

Range(s) == {s[i] : i \in DOMAIN s}

LowerChars == Range(LowerSeq)
UpperChars == Range(UpperSeq)
DigitChars == Range(DigitSeq)
AlphaChars == LowerChars \cup UpperChars
AlnumChars == AlphaChars \cup DigitChars
WordChars == AlnumChars \cup {"_"}
SpaceChars == {" ", "\t", "\n", "\r", "\f"}

\* str.lower(), one character
LowerChar(c) ==
    IF c \in UpperChars
    THEN LowerSeq[CHOOSE i \in DOMAIN UpperSeq : UpperSeq[i] = c]
    ELSE c

\* str.lower()
Lower(s) == [i \in DOMAIN s |-> LowerChar(s[i])]

\* s[i:j] with 1-based inclusive bounds, empty when i > j
Slice(s, i, j) == IF i > j THEN <<>> ELSE SubSeq(s, i, j)

\* s.startswith(p)
StartsWith(s, p) == Len(s) >= Len(p) /\ SubSeq(s, 1, Len(p)) = p

\* s.endswith(p)
EndsWith(s, p) == Len(s) >= Len(p) /\ SubSeq(s, Len(s) - Len(p) + 1, Len(s)) = p

\* p in s
Contains(s, p) ==
    \E i \in 1..(Len(s) - Len(p) + 1) : SubSeq(s, i, i + Len(p) - 1) = p

\* s.isdigit(): non-empty and all digits
IsDigitStr(s) == s /= <<>> /\ \A i \in DOMAIN s : s[i] \in DigitChars

\* s.isalnum(): non-empty and all letters or digits
IsAlnumStr(s) == s /= <<>> /\ \A i \in DOMAIN s : s[i] \in AlnumChars

\* s.lstrip(), s.rstrip(), s.strip()
RECURSIVE LStrip(_)
LStrip(s) == IF s /= <<>> /\ s[1] \in SpaceChars THEN LStrip(Tail(s)) ELSE s
RECURSIVE RStrip(_)
RStrip(s) ==
    IF s /= <<>> /\ s[Len(s)] \in SpaceChars THEN RStrip(SubSeq(s, 1, Len(s) - 1)) ELSE s
Strip(s) == RStrip(LStrip(s))

\* s.replace(c, '') for a single character c
RECURSIVE RemoveChar(_, _)
RemoveChar(s, c) ==
    IF s = <<>> THEN <<>>
    ELSE IF Head(s) = c THEN RemoveChar(Tail(s), c)
         ELSE <<Head(s)>> \o RemoveChar(Tail(s), c)

\* re.sub(r"\s+", " ", s)
RECURSIVE CollapseSpace(_)
CollapseSpace(s) ==
    IF s = <<>> THEN <<>>
    ELSE IF Head(s) \in SpaceChars
         THEN LET rest == CollapseSpace(Tail(s))
              IN  IF Len(s) > 1 /\ s[2] \in SpaceChars THEN rest
                  ELSE <<" ">> \o rest
         ELSE <<Head(s)>> \o CollapseSpace(Tail(s))

\* str.split(): the maximal runs of non-whitespace characters
RECURSIVE Split(_)
Split(s) ==
    LET t == Strip(s)
    IN  IF t = <<>> THEN <<>>
        ELSE LET sp == {i \in DOMAIN t : t[i] \in SpaceChars}
             IN  IF sp = {} THEN <<t>>
                 ELSE LET k == CHOOSE i \in sp : \A j \in sp : i <= j
                      IN  <<SubSeq(t, 1, k - 1)>> \o Split(Slice(t, k + 1, Len(t)))

\* sep.join(parts)
RECURSIVE Join(_, _)
Join(parts, sep) ==
    IF parts = <<>> THEN <<>>
    ELSE IF Len(parts) = 1 THEN parts[1]
         ELSE parts[1] \o sep \o Join(Tail(parts), sep)

\* all sequences over S of length at most n
SeqUpTo(S, n) == UNION {[1..k -> S] : k \in 0..n}

(***************************************************************************)
(* Regular expressions as used with re.match: a pattern is a sequence of   *)
(* atoms, each a character class with a repetition range, matched from the *)
(* start of the string; with toEnd the pattern ends in "$", which matches  *)
(* at the end of the string or just before a final newline.                *)
(***************************************************************************)
\* a repetition range lo..hi; hi = -1 stands for no upper limit ("+", "*", "{n,}")
Atom(cls, lo, hi) == [cls |-> cls, any |-> FALSE, lo |-> lo, hi |-> hi]
\* "." repeated: any character but a newline
AnyAtom(lo, hi) == [cls |-> {}, any |-> TRUE, lo |-> lo, hi |-> hi]
\* a literal string as a sequence of atoms
Lit(w) == [i \in DOMAIN w |-> Atom({w[i]}, 1, 1)]

InAtom(c, a) == IF a.any THEN c /= "\n" ELSE c \in a.cls

AtEnd(s, pos) == pos = Len(s) + 1 \/ (pos = Len(s) /\ s[pos] = "\n")

RECURSIVE MatchFrom(_, _, _, _, _)
MatchFrom(atoms, k, s, pos, toEnd) ==
    IF k > Len(atoms) THEN (toEnd => AtEnd(s, pos))
    ELSE LET a == atoms[k]
             rest == Len(s) - pos + 1
             most == IF a.hi < 0 \/ a.hi > rest THEN rest ELSE a.hi
         IN  \E n \in a.lo..most :
                /\ \A i \in pos..(pos + n - 1) : InAtom(s[i], a)
                /\ MatchFrom(atoms, k + 1, s, pos + n, toEnd)

\* re.match(pattern, s) is not None
ReMatch(p, s) == MatchFrom(p.atoms, 1, s, 1, p.toEnd)

Pat(atoms, toEnd) == [atoms |-> atoms, toEnd |-> toEnd]

\* ^(w1|w2|...)$ as one pattern per alternative
Alternatives(prefix, words) == {Pat(Lit(prefix \o w), TRUE) : w \in words}

(***************************************************************************)
(* StructuralHTMLConverter: the class tables (lines 20-66).                *)
(***************************************************************************)
Semantic_layout ==
    {<<"h","e","a","d","e","r">>, <<"f","o","o","t","e","r">>, <<"n","a","v">>,
     <<"s","i","d","e","b","a","r">>, <<"c","o","n","t","e","n","t">>,
     <<"m","a","i","n">>, <<"w","r","a","p","p","e","r">>,
     <<"c","o","n","t","a","i","n","e","r">>}
Semantic_component ==
    {<<"b","u","t","t","o","n">>, <<"m","e","n","u">>,
     <<"d","r","o","p","d","o","w","n">>, <<"m","o","d","a","l">>, <<"t","a","b">>,
     <<"a","c","c","o","r","d","i","o","n">>, <<"c","a","r","o","u","s","e","l">>}
Semantic_state ==
    {<<"a","c","t","i","v","e">>, <<"d","i","s","a","b","l","e","d">>,
     <<"h","i","d","d","e","n">>, <<"o","p","e","n">>, <<"c","l","o","s","e","d">>,
     <<"e","x","p","a","n","d","e","d">>, <<"c","o","l","l","a","p","s","e","d">>}
Semantic_type ==
    {<<"p","r","i","m","a","r","y">>, <<"s","e","c","o","n","d","a","r","y">>,
     <<"w","a","r","n","i","n","g">>, <<"e","r","r","o","r">>,
     <<"s","u","c","c","e","s","s">>, <<"i","n","f","o">>}

\* the values of SEMANTIC_CLASS_PATTERNS, all categories together
SEMANTIC_CLASS_PATTERNS ==
    Semantic_layout \cup Semantic_component \cup Semantic_state \cup Semantic_type

ColorNames ==
    {<<"r","e","d">>, <<"b","l","u","e">>, <<"g","r","e","e","n">>,
     <<"y","e","l","l","o","w">>, <<"b","l","a","c","k">>, <<"w","h","i","t","e">>,
     <<"g","r","a","y">>}
SizeNames ==
    {<<"s","m","a","l","l">>, <<"m","e","d","i","u","m">>, <<"l","a","r","g","e">>,
     <<"x","l">>, <<"x","x","l">>}
AlignNames ==
    {<<"l","e","f","t">>, <<"r","i","g","h","t">>, <<"c","e","n","t","e","r">>,
     <<"j","u","s","t","i","f","y">>}
TextStyleNames ==
    {<<"b","o","l","d">>, <<"i","t","a","l","i","c">>,
     <<"u","n","d","e","r","l","i","n","e">>}

\* ^\w+-\d+$
UtilityPattern ==
    Pat(<<Atom(WordChars, 1, -1), Atom({"-"}, 1, 1), Atom(DigitChars, 1, -1)>>, TRUE)
\* ^[a-z]+\d+$
LettersDigitsPattern ==
    Pat(<<Atom(LowerChars, 1, -1), Atom(DigitChars, 1, -1)>>, TRUE)

STYLING_PATTERNS ==
    {UtilityPattern, LettersDigitsPattern}
        \cup Alternatives(<<>>, ColorNames) \cup Alternatives(<<>>, SizeNames)
        \cup Alternatives(<<>>, AlignNames) \cup Alternatives(<<>>, TextStyleNames)

\* ^hoverable$ ... ^first$
UiStateWords ==
    {<<"h","o","v","e","r","a","b","l","e">>, <<"c","o","l","l","a","p","s","e","d">>,
     <<"c","o","l","l","a","p","s","i","b","l","e">>,
     <<"c","o","l","l","a","p","s","e","r">>, <<"e","x","p","a","n","d","e","d">>,
     <<"s","e","l","e","c","t","e","d">>, <<"a","c","t","i","v","e">>,
     <<"o","b","j">>, <<"a","r","r","a","y">>, <<"l","a","s","t">>,
     <<"f","i","r","s","t">>}
TabStates ==
    {<<"e","r","r","o","r">>, <<"s","u","c","c","e","s","s">>,
     <<"w","a","r","n","i","n","g">>}
\* ^sc-[a-zA-Z0-9_-]+$
StyledComponentPattern ==
    Pat(Lit(<<"s","c","-">>) \o <<Atom(AlnumChars \cup {"_", "-"}, 1, -1)>>, TRUE)
\* ^react-tabs__
ReactTabsClassPattern ==
    Pat(Lit(<<"r","e","a","c","t","-","t","a","b","s","_","_">>), FALSE)
\* ^.*[A-Z]{3,}[a-z]{2,}$
MixedCasePattern ==
    Pat(<<AnyAtom(0, -1), Atom(UpperChars, 3, -1), Atom(LowerChars, 2, -1)>>, TRUE)
\* ^[a-z]{2,5}[A-Z]{2,5}$
ShortMixedPattern ==
    Pat(<<Atom(LowerChars, 2, 5), Atom(UpperChars, 2, 5)>>, TRUE)
\* ^[a-zA-Z]{6}$
SixLetterPattern ==
    Pat(<<Atom(AlphaChars, 6, 6)>>, TRUE)

AGGRESSIVE_STYLING_PATTERNS ==
    Alternatives(<<>>, UiStateWords)
        \cup {StyledComponentPattern, ReactTabsClassPattern}
        \cup Alternatives(<<"t","a","b","-">>, TabStates)
        \cup {MixedCasePattern, ShortMixedPattern, SixLetterPattern}

CORE_ATTRS == {<<"i","d">>, <<"c","l","a","s","s">>, <<"r","o","l","e">>}
SEMANTIC_ATTRS ==
    {<<"h","r","e","f">>, <<"s","r","c">>, <<"a","l","t">>, <<"t","i","t","l","e">>,
     <<"t","y","p","e">>, <<"v","a","l","u","e">>, <<"n","a","m","e">>}
ARIA_ATTRS_PREFIX == <<"a","r","i","a","-">>
DATA_ATTRS_PREFIX == <<"d","a","t","a","-">>
REMOVE_TAGS ==
    {<<"s","c","r","i","p","t">>, <<"s","t","y","l","e">>,
     <<"n","o","s","c","r","i","p","t">>, <<"i","f","r","a","m","e">>,
     <<"e","m","b","e","d">>, <<"o","b","j","e","c","t">>}

(***************************************************************************)
(* is_semantic_class (lines 81-102).  self is the variable config.         *)
(***************************************************************************)
\* lines 86-88: the basic styling patterns, on the lower-cased token
MatchesStyling(class_lower) ==
    \E p \in STYLING_PATTERNS : ReMatch(p, class_lower)

\* lines 91-94: the aggressive patterns, on the token as written
MatchesAggressive(class_name) ==
    \E p \in AGGRESSIVE_STYLING_PATTERNS : ReMatch(p, class_name)

\* lines 97-99: a semantic marker is a substring of the lower-cased token
HasSemanticMarker(class_lower) ==
    \E w \in SEMANTIC_CLASS_PATTERNS : Contains(class_lower, w)

\* line 102 with the length test off by one
ReasonablyNamed_from_two(class_name) == Len(class_name) >= 2 /\ ~IsDigitStr(class_name)

\* line 102
ReasonablyNamed(class_name) == Len(class_name) > 2 /\ ~IsDigitStr(class_name)

\* is_semantic_class with the semantic markers consulted before the styling patterns
is_semantic_class_markers_first(class_name) ==
    LET class_lower == Lower(class_name)
    IN  IF HasSemanticMarker(class_lower) THEN TRUE
        ELSE IF MatchesStyling(class_lower) THEN FALSE
        ELSE IF config.ultra_aggressive /\ MatchesAggressive(class_name) THEN FALSE
        ELSE ReasonablyNamed(class_name)

\* is_semantic_class with the aggressive patterns consulted after the semantic markers
is_semantic_class_aggressive_last(class_name) ==
    LET class_lower == Lower(class_name)
    IN  IF MatchesStyling(class_lower) THEN FALSE
        ELSE IF HasSemanticMarker(class_lower) THEN TRUE
        ELSE IF config.ultra_aggressive /\ MatchesAggressive(class_name) THEN FALSE
        ELSE ReasonablyNamed(class_name)

is_semantic_class(class_name) ==
    LET class_lower == Lower(class_name)
    IN  IF MatchesStyling(class_lower) THEN FALSE
        ELSE IF config.ultra_aggressive /\ MatchesAggressive(class_name) THEN FALSE
        ELSE IF HasSemanticMarker(class_lower) THEN TRUE
        ELSE ReasonablyNamed(class_name)

(***************************************************************************)
(* Construction (lines 68-72, 356-367, 588-599): main builds one of the    *)
(* two converters.  structural records which class was built; the other    *)
(* fields are the object's own.                                            *)
(***************************************************************************)
PRESERVE_ATTRS ==
    {<<"i","d">>, <<"n","a","m","e">>, <<"h","r","e","f">>, <<"s","r","c">>,
     <<"a","l","t">>, <<"t","i","t","l","e">>, <<"t","y","p","e">>,
     <<"v","a","l","u","e">>, <<"a","c","t","i","o","n">>,
     <<"m","e","t","h","o","d">>, <<"r","e","l">>, <<"t","a","r","g","e","t">>,
     <<"c","o","l","s","p","a","n">>, <<"r","o","w","s","p","a","n">>,
     <<"r","o","l","e">>, <<"a","r","i","a","-","l","a","b","e","l">>,
     <<"a","r","i","a","-","l","a","b","e","l","l","e","d","b","y">>,
     <<"a","r","i","a","-","c","o","n","t","r","o","l","s">>,
     <<"d","a","t","a","-","s","e","c","t","i","o","n","-","i","d">>,
     <<"d","a","t","a","-","i","t","e","m","-","i","d">>,
     <<"d","a","t","a","-","r","o","l","e">>}

StructuralHTMLConverter(ultra_aggressive, simplify_spans) ==
    [structural |-> TRUE,
     ultra_aggressive |-> ultra_aggressive,
     simplify_spans |-> simplify_spans,
     preserve_all_data_attrs |-> FALSE,
     preserve_attrs |-> {}]

HTMLToXMLConverter(preserve_all_data_attrs, custom_preserve_attrs) ==
    [structural |-> FALSE,
     ultra_aggressive |-> FALSE,
     simplify_spans |-> FALSE,
     preserve_all_data_attrs |-> preserve_all_data_attrs,
     preserve_attrs |-> PRESERVE_ATTRS \cup custom_preserve_attrs]

\* --preserve-attrs: none, or a list naming class and an event handler
CustomAttrChoices == {{}, {<<"c","l","a","s","s">>, <<"o","n","c","l","i","c","k">>}}

StructuralConfigs ==
    {StructuralHTMLConverter(u, s) : u \in BOOLEAN, s \in BOOLEAN}
SemanticConfigs ==
    {HTMLToXMLConverter(d, c) : d \in BOOLEAN, c \in CustomAttrChoices}

\* Python's None, for a value that is otherwise a string
None == <<"None">>

(***************************************************************************)
(* The parsed tree (bs4) and the output tree (xml.etree.ElementTree).      *)
(*                                                                         *)
(* An input node is a NavigableString (kind "text") or a Tag (kind         *)
(* "elem"); an attribute value is a str, or a list of tokens for the       *)
(* multi-valued attributes (class).  A node is named by its path: the      *)
(* child indexes from the soup down to it.                                 *)
(*                                                                         *)
(* An output element has ElementTree's fields tag, attrib (attrs), text    *)
(* and children (kids); nothing in the program sets a tail.  src and tsrc  *)
(* are history fields that no code reads: the path of the input element    *)
(* the output element was created for, and the paths of the input text     *)
(* nodes whose text was appended to its text.                              *)
(***************************************************************************)
TextNode(s) == [kind |-> "text", tag |-> <<>>, attrs |-> <<>>, text |-> s, kids |-> <<>>]
Elem(tag, attrs, kids) ==
    [kind |-> "elem", tag |-> tag, attrs |-> attrs, text |-> <<>>, kids |-> kids]
StrAttr(name, value) == [name |-> name, isList |-> FALSE, value |-> value, list |-> <<>>]
ListAttr(name, toks) == [name |-> name, isList |-> TRUE, value |-> <<>>, list |-> toks]

\* ET.Element(tag) / ET.SubElement's new child
NewElement(tag, src) ==
    [tag |-> tag, attrs |-> <<>>, text |-> None, kids |-> <<>>, src |-> src, tsrc |-> <<>>]

\* elem.set(name, value): attrib is a dict, an existing key keeps its place
SetAttr(e, name, value) ==
    IF \E i \in DOMAIN e.attrs : e.attrs[i].name = name
    THEN [e EXCEPT !.attrs = [i \in DOMAIN e.attrs |->
                                IF e.attrs[i].name = name
                                THEN [name |-> name, value |-> value]
                                ELSE e.attrs[i]]]
    ELSE [e EXCEPT !.attrs = Append(e.attrs, [name |-> name, value |-> value])]

\* name in elem.attrib
HasAttr(e, name) == \E i \in DOMAIN e.attrs : e.attrs[i].name = name

\* elem.attrib[name], for a name that is there
AttrOf(e, name) == e.attrs[CHOOSE i \in DOMAIN e.attrs : e.attrs[i].name = name].value

\* Python truth of a str-or-None
Truthy(t) == t /= None /\ t /= <<>>

\* str(x) of an attribute value: a str is itself, a list prints as its repr
RECURSIVE ReprItems(_)
ReprItems(toks) ==
    IF toks = <<>> THEN <<>>
    ELSE <<"'">> \o toks[1] \o <<"'">>
            \o (IF Len(toks) > 1 THEN <<",", " ">> ELSE <<>>) \o ReprItems(Tail(toks))
PyStr(a) == IF a.isList THEN <<"[">> \o ReprItems(a.list) \o <<"]">> ELSE a.value

\* tag.get(name, ""): the str value of an attribute, "" when absent
GetAttr(n, name) ==
    IF \E i \in DOMAIN n.attrs : n.attrs[i].name = name
    THEN PyStr(n.attrs[CHOOSE i \in DOMAIN n.attrs : n.attrs[i].name = name])
    ELSE <<>>
HasInAttr(n, name) == \E i \in DOMAIN n.attrs : n.attrs[i].name = name

\* the node a path names, under a list of top-level nodes
RECURSIVE NodeAt(_, _)
NodeAt(nodes, path) ==
    IF Len(path) = 1 THEN nodes[path[1]]
    ELSE NodeAt(nodes[path[1]].kids, Tail(path))

\* the paths of all nodes under a list of nodes, in document order
RECURSIVE PathsUnder(_, _, _)
PathsUnder(nodes, i, prefix) ==
    IF i > Len(nodes) THEN <<>>
    ELSE <<prefix \o <<i>>>>
            \o PathsUnder(nodes[i].kids, 1, prefix \o <<i>>)
            \o PathsUnder(nodes, i + 1, prefix)

\* tag.get_text(): the concatenated strings of the descendants
RECURSIVE GetTextOf(_, _)
GetTextOf(nodes, i) ==
    IF i > Len(nodes) THEN <<>>
    ELSE (IF nodes[i].kind = "text" THEN nodes[i].text ELSE GetTextOf(nodes[i].kids, 1))
            \o GetTextOf(nodes, i + 1)
get_text(n) == IF n.kind = "text" THEN n.text ELSE GetTextOf(n.kids, 1)

\* the descendants of the node at path (or the node itself) that are text with
\* something other than whitespace in it
TextSources(nodes, path) ==
    LET n == NodeAt(nodes, path)
        all == <<path>> \o PathsUnder(n.kids, 1, path)
        IsInk(p) == NodeAt(nodes, p).kind = "text" /\ Strip(NodeAt(nodes, p).text) /= <<>>
    IN  SelectSeq(all, IsInk)

\* soup.find(tag) / soup.find_all(tag): the elements of that tag below a start
\* path (<<>> for the soup), in document order
FindAll(nodes, start, tag) ==
    LET under == IF start = <<>> THEN PathsUnder(nodes, 1, <<>>)
                 ELSE PathsUnder(NodeAt(nodes, start).kids, 1, start)
        IsTag(p) == NodeAt(nodes, p).kind = "elem" /\ NodeAt(nodes, p).tag = tag
    IN  SelectSeq(under, IsTag)

(***************************************************************************)
(* StructuralHTMLConverter's helpers (lines 74-208).                       *)
(***************************************************************************)
DataUrlLimit == 1000

\* lines 74-79
should_remove_img(img_elem) ==
    LET src == GetAttr(img_elem, <<"s","r","c">>)
    IN  StartsWith(src, <<"d","a","t","a",":">>) /\ Len(src) > DataUrlLimit

\* lines 104-115; classes is an attribute value
should_remove_single_hash_class(classes) ==
    IF ~config.ultra_aggressive THEN FALSE
    ELSE LET class_string == Strip(PyStr(classes))
         IN  IF Contains(class_string, <<" ">>) THEN FALSE
             ELSE Len(class_string) = 6 /\ IsAlnumStr(class_string)

\* lines 117-132; None or the joined tokens
clean_class_attribute(classes) ==
    IF (classes.isList /\ classes.list = <<>>) \/ (~classes.isList /\ classes.value = <<>>)
    THEN None
    ELSE IF should_remove_single_hash_class(classes) THEN None
    ELSE LET class_list == IF classes.isList THEN classes.list ELSE Split(classes.value)
             semantic_classes == SelectSeq(class_list, is_semantic_class)
         IN  IF semantic_classes /= <<>> THEN Join(semantic_classes, <<" ">>) ELSE None

\* ^react-tabs-\d+$
ReactTabsIdPattern ==
    Pat(Lit(<<"r","e","a","c","t","-","t","a","b","s","-">>) \o <<Atom(DigitChars, 1, -1)>>,
        TRUE)

DataKeepMarkers ==
    {<<"i","d">>, <<"r","o","l","e">>, <<"t","y","p","e">>,
     <<"s","e","c","t","i","o","n">>, <<"i","t","e","m">>}

\* should_preserve_attribute dropping react-tabs ids whatever ultra_aggressive is
should_preserve_attribute_always_react(attr, tag_name) ==
    LET attr_lower == Lower(attr.name)
    IN  IF StartsWith(attr_lower, ARIA_ATTRS_PREFIX) THEN FALSE
        ELSE IF tag_name = <<"s","p","a","n">> /\ attr_lower = <<"c","l","a","s","s">>
        THEN FALSE
        ELSE IF /\ attr_lower = <<"i","d">>
                /\ ReMatch(ReactTabsIdPattern, PyStr(attr))
        THEN FALSE
        ELSE IF attr_lower \in CORE_ATTRS \/ attr_lower \in SEMANTIC_ATTRS THEN TRUE
        ELSE IF StartsWith(attr_lower, DATA_ATTRS_PREFIX)
        THEN IF attr_lower = <<"d","a","t","a","-","t","e","s","t","i","d">> THEN FALSE
             ELSE LET data_name == Slice(attr_lower, 6, Len(attr_lower))
                  IN  \E pattern \in DataKeepMarkers : Contains(data_name, pattern)
        ELSE FALSE

\* should_preserve_attribute without the data-testid exclusion
should_preserve_attribute_no_testid(attr, tag_name) ==
    LET attr_lower == Lower(attr.name)
    IN  IF StartsWith(attr_lower, ARIA_ATTRS_PREFIX) THEN FALSE
        ELSE IF tag_name = <<"s","p","a","n">> /\ attr_lower = <<"c","l","a","s","s">>
        THEN FALSE
        ELSE IF /\ attr_lower = <<"i","d">>
                /\ config.ultra_aggressive
                /\ ReMatch(ReactTabsIdPattern, PyStr(attr))
        THEN FALSE
        ELSE IF attr_lower \in CORE_ATTRS \/ attr_lower \in SEMANTIC_ATTRS THEN TRUE
        ELSE IF StartsWith(attr_lower, DATA_ATTRS_PREFIX)
        THEN LET data_name == Slice(attr_lower, 6, Len(attr_lower))
             IN  \E pattern \in DataKeepMarkers : Contains(data_name, pattern)
        ELSE FALSE

\* lines 134-165; attr is the attribute (name and value), tag_name the owner's tag
should_preserve_attribute(attr, tag_name) ==
    LET attr_lower == Lower(attr.name)
    IN  IF StartsWith(attr_lower, ARIA_ATTRS_PREFIX) THEN FALSE
        ELSE IF tag_name = <<"s","p","a","n">> /\ attr_lower = <<"c","l","a","s","s">>
        THEN FALSE
        ELSE IF /\ attr_lower = <<"i","d">>
                /\ config.ultra_aggressive
                /\ ReMatch(ReactTabsIdPattern, PyStr(attr))
        THEN FALSE
        ELSE IF attr_lower \in CORE_ATTRS \/ attr_lower \in SEMANTIC_ATTRS THEN TRUE
        ELSE IF StartsWith(attr_lower, DATA_ATTRS_PREFIX)
        THEN IF attr_lower = <<"d","a","t","a","-","t","e","s","t","i","d">> THEN FALSE
             ELSE LET data_name == Slice(attr_lower, 6, Len(attr_lower))
                  IN  \E pattern \in DataKeepMarkers : Contains(data_name, pattern)
        ELSE FALSE

\* re.sub(open \s* close, "", s): leftmost matches, left to right
RECURSIVE RemoveEmptyPair(_, _, _)
RemoveEmptyPair(s, open, close) ==
    IF s = <<>> THEN <<>>
    ELSE LET ends == {j \in 2..Len(s) :
                        /\ s[j] = close
                        /\ \A k \in 2..(j - 1) : s[k] \in SpaceChars}
         IN  IF s[1] = open /\ ends /= {}
             THEN LET j == CHOOSE x \in ends : \A y \in ends : x <= y
                  IN  RemoveEmptyPair(Slice(s, j + 1, Len(s)), open, close)
             ELSE <<s[1]>> \o RemoveEmptyPair(Tail(s), open, close)

\* re.sub(c{least,}, c * keep, s): each maximal run of c of length >= least
\* becomes keep copies of c
RECURSIVE SquashRuns(_, _, _, _)
SquashRuns(s, c, least, keep) ==
    IF s = <<>> THEN <<>>
    ELSE IF s[1] /= c THEN <<s[1]>> \o SquashRuns(Tail(s), c, least, keep)
    ELSE LET stops == {j \in 1..Len(s) : s[j] /= c}
             run == IF stops = {} THEN Len(s)
                    ELSE (CHOOSE x \in stops : \A y \in stops : x <= y) - 1
             kept == IF run >= least THEN keep ELSE run
         IN  [i \in 1..kept |-> c] \o SquashRuns(Slice(s, run + 1, Len(s)), c, least, keep)

\* lines 167-183
aggressive_text_clean(text) ==
    IF text = <<>> THEN <<>>
    ELSE LET t1 == CollapseSpace(Strip(text))
             t2 == RemoveEmptyPair(t1, "(", ")")
             t3 == RemoveEmptyPair(t2, "[", "]")
             t4 == SquashRuns(t3, ".", 3, 3)
             t5 == SquashRuns(t4, "-", 2, 2)
         IN  Strip(t5)

SimplePunctuation == {",", "{", "}", "[", "]", ":", "(", ")", ";"}
SimpleLiterals ==
    {<<"t","r","u","e">>, <<"f","a","l","s","e">>, <<"n","u","l","l">>}

\* lines 185-208
should_simplify_span(span_elem) ==
    IF ~config.simplify_spans THEN FALSE
    ELSE IF \E i \in DOMAIN span_elem.attrs :
                should_preserve_attribute(span_elem.attrs[i], <<"s","p","a","n">>)
    THEN FALSE
    ELSE LET text_content == Strip(get_text(span_elem))
         IN  \/ Len(text_content) = 1 /\ text_content[1] \in SimplePunctuation
             \/ StartsWith(text_content, <<"\"">>) /\ EndsWith(text_content, <<"\"">>)
             \/ IsDigitStr(RemoveChar(RemoveChar(text_content, "."), "-"))
             \/ text_content \in SimpleLiterals

(***************************************************************************)
(* StructuralHTMLConverter.process_element and convert (lines 210-286).    *)
(***************************************************************************)
\* lines 216-219 and 238-241: parent.text += sep + text, or parent.text = text
AppendText(parent_xml_elem, text, sep, sources) ==
    [parent_xml_elem EXCEPT
        !.text = IF Truthy(@) THEN @ \o sep \o text ELSE text,
        !.tsrc = @ \o sources]

\* ET.SubElement(parent, ...) once the child is complete
AppendChild(parent_xml_elem, xml_elem) ==
    [parent_xml_elem EXCEPT !.kids = Append(@, xml_elem)]

\* lines 249-262: the attribute loop, attribute i onwards
RECURSIVE Structural_attributes(_, _, _)
Structural_attributes(soup_elem, i, xml_elem) ==
    IF i > Len(soup_elem.attrs) THEN xml_elem
    ELSE LET attr == soup_elem.attrs[i]
             next ==
                IF ~should_preserve_attribute(attr, soup_elem.tag) THEN xml_elem
                ELSE IF attr.name = <<"c","l","a","s","s">>
                THEN LET cleaned_classes == clean_class_attribute(attr)
                     IN  IF Truthy(cleaned_classes)
                         THEN SetAttr(xml_elem, <<"c","l","a","s","s">>, cleaned_classes)
                         ELSE xml_elem
                ELSE LET attr_value ==
                            Strip(IF attr.isList THEN Join(attr.list, <<" ">>) ELSE attr.value)
                     IN  IF attr_value /= <<>> THEN SetAttr(xml_elem, attr.name, attr_value)
                         ELSE xml_elem
         IN  Structural_attributes(soup_elem, i + 1, next)

\* lines 210-266; soup_elem is the node of soup at path
RECURSIVE Structural_process_element(_, _, _)
RECURSIVE Structural_process_children(_, _, _, _)
Structural_process_children(soup, path, i, xml_elem) ==
    IF i > Len(NodeAt(soup, path).kids) THEN xml_elem
    ELSE Structural_process_children(soup, path, i + 1,
            Structural_process_element(soup, path \o <<i>>, xml_elem))

Structural_process_element(soup, path, parent_xml_elem) ==
    LET soup_elem == NodeAt(soup, path)
    IN  IF soup_elem.kind = "text"
        THEN LET text == aggressive_text_clean(soup_elem.text)
             IN  IF text /= <<>> THEN AppendText(parent_xml_elem, text, <<" ">>, <<path>>)
                 ELSE parent_xml_elem
        ELSE IF soup_elem.tag \in REMOVE_TAGS THEN parent_xml_elem
        ELSE IF soup_elem.tag = <<"i","m","g">> /\ should_remove_img(soup_elem)
        THEN parent_xml_elem
        ELSE IF soup_elem.tag = <<"s","p","a","n">> /\ should_simplify_span(soup_elem)
        THEN LET text == aggressive_text_clean(get_text(soup_elem))
             IN  IF text /= <<>>
                 THEN AppendText(parent_xml_elem, text, <<>>, TextSources(soup, path))
                 ELSE parent_xml_elem
        ELSE LET xml_elem ==
                    Structural_attributes(soup_elem, 1, NewElement(soup_elem.tag, path))
             IN  AppendChild(parent_xml_elem,
                             Structural_process_children(soup, path, 1, xml_elem))

\* lines 283-284: "for child in body.children", body an element's path or <<>>
\* for the soup itself
RECURSIVE Structural_process_top(_, _, _, _)
Structural_process_top(soup, body, i, parent_xml_elem) ==
    LET children == IF body = <<>> THEN soup ELSE NodeAt(soup, body).kids
    IN  IF i > Len(children) THEN parent_xml_elem
        ELSE Structural_process_top(soup, body, i + 1,
                Structural_process_element(soup, body \o <<i>>, parent_xml_elem))

\* lines 268-286
Structural_convert(soup) ==
    LET root0 == NewElement(<<"h","t","m","l","-","c","l","e","a","n","e","d">>, <<>>)
        root1 == SetAttr(root0, <<"p","r","o","c","e","s","s","e","d","-","b","y">>,
                    <<"S","t","r","u","c","t","u","r","a","l","H","T","M","L",
                      "C","o","n","v","e","r","t","e","r">>)
        root == SetAttr(root1,
                    <<"p","r","e","s","e","r","v","e","s","-",
                      "s","t","r","u","c","t","u","r","e">>,
                    <<"T","r","u","e">>)
        htmls == FindAll(soup, <<>>, <<"h","t","m","l">>)
        bodies == FindAll(soup, <<>>, <<"b","o","d","y">>)
    IN  IF htmls /= <<>> THEN Structural_process_element(soup, htmls[1], root)
        ELSE LET body == IF bodies /= <<>> THEN bodies[1] ELSE <<>>
             IN  Structural_process_top(soup, body, 1, root)

(***************************************************************************)
(* HTMLToXMLConverter (lines 308-497).                                     *)
(***************************************************************************)
UNWRAP_TAGS ==
    {<<"f","o","n","t">>, <<"c","e","n","t","e","r">>, <<"b">>, <<"i">>, <<"u">>,
     <<"s">>, <<"s","t","r","i","k","e">>}

TAG_MAPPINGS ==
    {<<<<"d","i","v">>, <<"s","e","c","t","i","o","n">>>>,
     <<<<"s","p","a","n">>, <<"t","e","x","t">>>>,
     <<<<"b">>, <<"s","t","r","o","n","g">>>>,
     <<<<"i">>, <<"e","m">>>>,
     <<<<"h","1">>, <<"h","e","a","d","i","n","g","1">>>>,
     <<<<"h","2">>, <<"h","e","a","d","i","n","g","2">>>>,
     <<<<"h","3">>, <<"h","e","a","d","i","n","g","3">>>>,
     <<<<"h","4">>, <<"h","e","a","d","i","n","g","4">>>>,
     <<<<"h","5">>, <<"h","e","a","d","i","n","g","5">>>>,
     <<<<"h","6">>, <<"h","e","a","d","i","n","g","6">>>>}

\* html.escape(s, quote=False)
RECURSIVE HtmlEscape(_)
HtmlEscape(s) ==
    IF s = <<>> THEN <<>>
    ELSE (CASE s[1] = "&" -> <<"&","a","m","p",";">>
            [] s[1] = "<" -> <<"&","l","t",";">>
            [] s[1] = ">" -> <<"&","g","t",";">>
            [] OTHER -> <<s[1]>>) \o HtmlEscape(Tail(s))

\* lines 369-379
clean_text(text) ==
    IF text = <<>> THEN <<>>
    ELSE HtmlEscape(Strip(CollapseSpace(text)))

\* lines 381-387
should_preserve_attr(attr_name) ==
    \/ attr_name \in config.preserve_attrs
    \/ config.preserve_all_data_attrs /\ StartsWith(attr_name, <<"d","a","t","a","-">>)

\* lines 389-396
convert_tag_name(tag_name) ==
    IF \E m \in TAG_MAPPINGS : m[1] = tag_name
    THEN (CHOOSE m \in TAG_MAPPINGS : m[1] = tag_name)[2]
    ELSE [i \in DOMAIN tag_name |->
            IF tag_name[i] \in AlnumChars \cup {"_", "-"} THEN tag_name[i] ELSE "_"]

\* lines 428-435: the attribute loop, attribute i onwards
RECURSIVE HTMLToXML_attributes(_, _, _)
HTMLToXML_attributes(soup_elem, i, xml_elem) ==
    IF i > Len(soup_elem.attrs) THEN xml_elem
    ELSE LET attr == soup_elem.attrs[i]
             next ==
                IF ~should_preserve_attr(attr.name) THEN xml_elem
                ELSE LET attr_value ==
                            Strip(IF attr.isList THEN Join(attr.list, <<" ">>) ELSE attr.value)
                     IN  IF attr_value /= <<>> THEN SetAttr(xml_elem, attr.name, attr_value)
                         ELSE xml_elem
         IN  HTMLToXML_attributes(soup_elem, i + 1, next)

\* lines 438-440 testing the input's attributes in place of the output's
AnchorHref_by_input(soup_elem, xml_elem) ==
    IF soup_elem.tag = <<"a">> /\ ~HasInAttr(soup_elem, <<"h","r","e","f">>)
    THEN SetAttr(xml_elem, <<"h","r","e","f">>, <<>>)
    ELSE xml_elem

\* lines 438-440: an anchor keeps an href, empty if need be
AnchorHref(soup_elem, xml_elem) ==
    IF soup_elem.tag = <<"a">> /\ ~HasAttr(xml_elem, <<"h","r","e","f">>)
    THEN SetAttr(xml_elem, <<"h","r","e","f">>, <<>>)
    ELSE xml_elem

\* lines 449-450: has_children is true once the loop of line 444 ran at all
EmptyElementText(soup_elem, xml_elem) ==
    LET has_children == soup_elem.kids /= <<>>
    IN  IF ~has_children /\ ~Truthy(xml_elem.text)
        THEN [xml_elem EXCEPT !.text = <<>>]
        ELSE xml_elem

\* lines 398-450; soup_elem is the node of soup at path
RECURSIVE HTMLToXML_process_element(_, _, _)
RECURSIVE HTMLToXML_process_children(_, _, _, _)
HTMLToXML_process_children(soup, path, i, xml_elem) ==
    IF i > Len(NodeAt(soup, path).kids) THEN xml_elem
    ELSE HTMLToXML_process_children(soup, path, i + 1,
            HTMLToXML_process_element(soup, path \o <<i>>, xml_elem))

HTMLToXML_process_element(soup, path, parent_xml_elem) ==
    LET soup_elem == NodeAt(soup, path)
    IN  IF soup_elem.kind = "text"
        THEN LET text == clean_text(soup_elem.text)
             IN  IF text /= <<>> THEN AppendText(parent_xml_elem, text, <<" ">>, <<path>>)
                 ELSE parent_xml_elem
        ELSE IF soup_elem.tag \in REMOVE_TAGS THEN parent_xml_elem
        ELSE IF soup_elem.tag \in UNWRAP_TAGS
        THEN HTMLToXML_process_children(soup, path, 1, parent_xml_elem)
        ELSE LET created == NewElement(convert_tag_name(soup_elem.tag), path)
                 with_attrs == AnchorHref(soup_elem,
                                          HTMLToXML_attributes(soup_elem, 1, created))
                 filled == HTMLToXML_process_children(soup, path, 1, with_attrs)
             IN  AppendChild(parent_xml_elem, EmptyElementText(soup_elem, filled))

\* lines 494-495: "for child in body.children", body an element's path or <<>>
\* for the soup itself
RECURSIVE HTMLToXML_process_top(_, _, _, _)
HTMLToXML_process_top(soup, body, i, parent_xml_elem) ==
    LET children == IF body = <<>> THEN soup ELSE NodeAt(soup, body).kids
    IN  IF i > Len(children) THEN parent_xml_elem
        ELSE HTMLToXML_process_top(soup, body, i + 1,
                HTMLToXML_process_element(soup, body \o <<i>>, parent_xml_elem))

\* metadata[key] = value that leaves a known key's value alone
DictSet_keep_first(metadata, key, value, src) ==
    IF \E i \in DOMAIN metadata : metadata[i].key = key
    THEN metadata
    ELSE Append(metadata, [key |-> key, value |-> value, src |-> src])

\* metadata[key] = value on a dict: a known key keeps its place, its value is replaced
DictSet(metadata, key, value, src) ==
    IF \E i \in DOMAIN metadata : metadata[i].key = key
    THEN [i \in DOMAIN metadata |->
            IF metadata[i].key = key THEN [key |-> key, value |-> value, src |-> src]
            ELSE metadata[i]]
    ELSE Append(metadata, [key |-> key, value |-> value, src |-> src])

\* lines 463-467: the meta elements, from the i-th on
RECURSIVE ExtractMetas(_, _, _, _)
ExtractMetas(soup, metas, i, metadata) ==
    IF i > Len(metas) THEN metadata
    ELSE LET meta == NodeAt(soup, metas[i])
             by_name == GetAttr(meta, <<"n","a","m","e">>)
             name == IF by_name /= <<>> THEN by_name
                     ELSE GetAttr(meta, <<"p","r","o","p","e","r","t","y">>)
             content == GetAttr(meta, <<"c","o","n","t","e","n","t">>)
         IN  ExtractMetas(soup, metas, i + 1,
                IF name /= <<>> /\ content /= <<>>
                THEN DictSet(metadata, name, content, metas[i])
                ELSE metadata)

\* lines 452-469
extract_metadata(soup) ==
    LET heads == FindAll(soup, <<>>, <<"h","e","a","d">>)
    IN  IF heads = <<>> THEN <<>>
        ELSE LET head == heads[1]
                 titles == FindAll(soup, head, <<"t","i","t","l","e">>)
                 with_title ==
                    IF titles /= <<>>
                    THEN DictSet(<<>>, <<"t","i","t","l","e">>,
                                 clean_text(get_text(NodeAt(soup, titles[1]))), titles[1])
                    ELSE <<>>
             IN  ExtractMetas(soup, FindAll(soup, head, <<"m","e","t","a">>), 1, with_title)

\* lines 483-486: one meta element per key
MetaElement(entry) ==
    [SetAttr(NewElement(<<"m","e","t","a">>, entry.src), <<"n","a","m","e">>, entry.key)
        EXCEPT !.text = entry.value]

\* lines 471-497
HTMLToXML_convert(soup) ==
    LET root == NewElement(<<"d","o","c","u","m","e","n","t">>, <<>>)
        metadata == extract_metadata(soup)
        meta_elem == [NewElement(<<"m","e","t","a","d","a","t","a">>, <<>>)
                        EXCEPT !.kids = [i \in DOMAIN metadata |-> MetaElement(metadata[i])]]
        with_meta == IF metadata /= <<>> THEN AppendChild(root, meta_elem) ELSE root
        bodies == FindAll(soup, <<>>, <<"b","o","d","y">>)
        body == IF bodies /= <<>> THEN bodies[1] ELSE <<>>
        content_elem ==
            HTMLToXML_process_top(soup, body, 1,
                                  NewElement(<<"c","o","n","t","e","n","t">>, <<>>))
    IN  AppendChild(with_meta, content_elem)

(***************************************************************************)
(* Writing the result and reading it back (lines 606, 270 and 474):        *)
(* ET.tostring(root, encoding="unicode") and BeautifulSoup(text,           *)
(* "html.parser").                                                         *)
(***************************************************************************)
\* ElementTree's escaping of text (attribute = FALSE) and attribute values
RECURSIVE XmlEscape(_, _)
XmlEscape(s, attribute) ==
    IF s = <<>> THEN <<>>
    ELSE (CASE s[1] = "&" -> <<"&","a","m","p",";">>
            [] s[1] = "<" -> <<"&","l","t",";">>
            [] s[1] = ">" -> <<"&","g","t",";">>
            [] s[1] = "\"" /\ attribute -> <<"&","q","u","o","t",";">>
            [] OTHER -> <<s[1]>>) \o XmlEscape(Tail(s), attribute)

\* the parser's decoding of character references
RECURSIVE Unescape(_)
Unescape(s) ==
    IF s = <<>> THEN <<>>
    ELSE IF StartsWith(s, <<"&","a","m","p",";">>)
         THEN <<"&">> \o Unescape(Slice(s, 6, Len(s)))
    ELSE IF StartsWith(s, <<"&","l","t",";">>)
         THEN <<"<">> \o Unescape(Slice(s, 5, Len(s)))
    ELSE IF StartsWith(s, <<"&","g","t",";">>)
         THEN <<">">> \o Unescape(Slice(s, 5, Len(s)))
    ELSE IF StartsWith(s, <<"&","q","u","o","t",";">>)
         THEN <<"\"">> \o Unescape(Slice(s, 7, Len(s)))
    ELSE <<s[1]>> \o Unescape(Tail(s))

RECURSIVE AttribString(_, _)
AttribString(attrs, i) ==
    IF i > Len(attrs) THEN <<>>
    ELSE <<" ">> \o attrs[i].name \o <<"=", "\"">> \o XmlEscape(attrs[i].value, TRUE)
            \o <<"\"">> \o AttribString(attrs, i + 1)

\* ET.tostring(elem, encoding="unicode")
RECURSIVE tostring(_)
RECURSIVE ChildrenString(_, _)
ChildrenString(kids, i) ==
    IF i > Len(kids) THEN <<>> ELSE tostring(kids[i]) \o ChildrenString(kids, i + 1)
tostring(elem) ==
    <<"<">> \o elem.tag \o AttribString(elem.attrs, 1)
        \o (IF Truthy(elem.text) \/ elem.kids /= <<>>
            THEN <<">">> \o (IF Truthy(elem.text) THEN XmlEscape(elem.text, FALSE) ELSE <<>>)
                    \o ChildrenString(elem.kids, 1)
                    \o <<"<", "/">> \o elem.tag \o <<">">>
            ELSE <<" ", "/", ">">>)

\* the tags the parser's tree builder closes as soon as they open
VoidTags ==
    {<<"i","m","g">>, <<"m","e","t","a">>, <<"b","r">>, <<"h","r">>,
     <<"i","n","p","u","t">>, <<"l","i","n","k">>, <<"e","m","b","e","d">>}

\* an attribute as the parser gives it: the name lower-cased, class split in tokens
ParsedAttr(a) ==
    IF Lower(a.name) = <<"c","l","a","s","s">>
    THEN ListAttr(Lower(a.name), Split(Unescape(XmlEscape(a.value, TRUE))))
    ELSE StrAttr(Lower(a.name), Unescape(XmlEscape(a.value, TRUE)))

\* BeautifulSoup(tostring(elem), "html.parser"): the nodes an output element
\* reads back as.  A void tag takes no children: what the text put inside it
\* follows it.
RECURSIVE ParseSerialized(_)
RECURSIVE ParseSerializedKids(_, _)
ParseSerializedKids(kids, i) ==
    IF i > Len(kids) THEN <<>>
    ELSE ParseSerialized(kids[i]) \o ParseSerializedKids(kids, i + 1)
ParseSerialized(elem) ==
    LET inner == (IF Truthy(elem.text)
                  THEN <<TextNode(Unescape(XmlEscape(elem.text, FALSE)))>> ELSE <<>>)
                    \o ParseSerializedKids(elem.kids, 1)
        attrs == [i \in DOMAIN elem.attrs |-> ParsedAttr(elem.attrs[i])]
    IN  IF Lower(elem.tag) \in VoidTags
        THEN <<Elem(Lower(elem.tag), attrs, <<>>)>> \o inner
        ELSE <<Elem(Lower(elem.tag), attrs, inner)>>

(***************************************************************************)
(* The documents the model converts.                                       *)
(***************************************************************************)
TAG_a == <<"a">>
TAG_b == <<"b">>
TAG_p == <<"p">>
TAG_div == <<"d","i","v">>
TAG_span == <<"s","p","a","n">>
TAG_img == <<"i","m","g">>
TAG_meta == <<"m","e","t","a">>
TAG_head == <<"h","e","a","d">>
TAG_body == <<"b","o","d","y">>
TAG_script == <<"s","c","r","i","p","t">>
TAG_noscript == <<"n","o","s","c","r","i","p","t">>
ATTR_id == <<"i","d">>
ATTR_href == <<"h","r","e","f">>
ATTR_src == <<"s","r","c">>
ATTR_class == <<"c","l","a","s","s">>

\* "data:" and then A's, n characters in all
DataUrl(n) == <<"d","a","t","a",":">> \o [i \in 1..(n - 5) |-> "A"]

Texts ==
    {<<"a">>, <<" ">>, <<"5">>, <<"a"," ","(",")"," ","b">>, <<" ","&"," "," ","x">>}

\* elements without children
LeafElems ==
    {Elem(TAG_p, <<>>, <<>>), Elem(TAG_a, <<>>, <<>>), Elem(TAG_script, <<>>, <<>>),
     Elem(TAG_meta, <<StrAttr(<<"n","a","m","e">>, <<"k">>),
                      StrAttr(<<"c","o","n","t","e","n","t">>, <<"v">>)>>, <<>>)}
LeafNodes == {TextNode(t) : t \in Texts} \cup LeafElems

\* an element of each kind the tree builders tell apart, around up to MaxKids leaves
InnerTags == {TAG_p, TAG_span, TAG_b, TAG_noscript, TAG_head, TAG_body}
InnerNodes == {Elem(t, <<>>, ks) : t \in InnerTags, ks \in SeqUpTo(LeafNodes, MaxKids)}

\* and one more level around one of those
OuterTags == {TAG_div, TAG_span, TAG_noscript, TAG_head}
OuterNodes ==
    {Elem(t, <<>>, ks) : t \in OuterTags, ks \in SeqUpTo(InnerNodes \cup LeafNodes, 1)}

Docs == {<<n>> : n \in LeafNodes \cup InnerNodes \cup OuterNodes}

Init ==
    /\ config \in StructuralConfigs \cup SemanticConfigs
    /\ doc \in Docs
    /\ phase = "parsed"
    /\ out = None
    /\ out2 = None
    /\ token = <<>>
    /\ verdict = FALSE

\* main, lines 588-602, with --structural
ConvertStructural ==
    /\ phase = "parsed"
    /\ config.structural
    /\ out' = Structural_convert(doc)
    /\ phase' = "converted"
    /\ UNCHANGED <<config, doc, out2, token, verdict>>

\* main, lines 588-602, without --structural
ConvertSemantic ==
    /\ phase = "parsed"
    /\ ~config.structural
    /\ out' = HTMLToXML_convert(doc)
    /\ phase' = "converted"
    /\ UNCHANGED <<config, doc, out2, token, verdict>>

\* the program run again, with the same options, on the file it wrote
ReconvertStructural ==
    /\ phase = "converted"
    /\ config.structural
    /\ out2' = Structural_convert(ParseSerialized(out))
    /\ phase' = "reconverted"
    /\ UNCHANGED <<config, doc, out, token, verdict>>

ReconvertSemantic ==
    /\ phase = "converted"
    /\ ~config.structural
    /\ out2' = HTMLToXML_convert(ParseSerialized(out))
    /\ phase' = "reconverted"
    /\ UNCHANGED <<config, doc, out, token, verdict>>

Next ==
    \/ ConvertStructural
    \/ ConvertSemantic
    \/ ReconvertStructural
    \/ ReconvertSemantic

Spec == Init /\ [][Next]_vars

(***************************************************************************)
(* The same program on documents of one element with attributes, bare or   *)
(* inside a b or a span.                                                   *)
(***************************************************************************)
IdValues ==
    {<<"x">>, <<" ","x">>, <<" ">>,
     <<"r","e","a","c","t","-","t","a","b","s","-","1">>,
     <<"r","e","a","c","t","-","t","a","b","s","-","7","\n">>}

\* id, class and an event handler for every tag; href for a, src for img
AttrPool(tag) ==
    {StrAttr(ATTR_id, v) : v \in IdValues}
        \cup {ListAttr(ATTR_class, <<<<"n","a","v">>>>),
              StrAttr(<<"o","n","c","l","i","c","k">>, <<"s">>)}
        \cup (IF tag = TAG_a
              THEN {StrAttr(ATTR_href, <<"u">>), StrAttr(ATTR_href, <<" ">>)} ELSE {})
        \cup (IF tag = TAG_img
              THEN {StrAttr(ATTR_src, DataUrl(DataUrlLimit + 1)),
                    StrAttr(ATTR_src, DataUrl(DataUrlLimit))}
              ELSE {})

\* an element's attributes: a dict, so no name twice
AttrLists(tag) ==
    {as \in SeqUpTo(AttrPool(tag), MaxAttrs) :
        \A i, j \in DOMAIN as : i /= j => as[i].name /= as[j].name}

ElemTags == {TAG_div, TAG_span, TAG_a, TAG_b, TAG_img, TAG_noscript}
\* the parser gives a void tag no children
ElemKids(tag) == IF tag \in VoidTags THEN {<<>>} ELSE {<<>>, <<TextNode(<<"5">>)>>}
Elems ==
    UNION {{Elem(t, as, ks) : as \in AttrLists(t), ks \in ElemKids(t)} : t \in ElemTags}
WrapTags == {TAG_b, TAG_span}
ElemDocs == {<<e>> : e \in Elems} \cup {<<Elem(w, <<>>, <<e>>)>> : w \in WrapTags, e \in Elems}

InitElem ==
    /\ config \in StructuralConfigs \cup SemanticConfigs
    /\ doc \in ElemDocs
    /\ phase = "parsed"
    /\ out = None
    /\ out2 = None
    /\ token = <<>>
    /\ verdict = FALSE

NextElem ==
    \/ ConvertStructural
    \/ ConvertSemantic

SpecElem == InitElem /\ [][NextElem]_vars

(***************************************************************************)
(* The classifier on its own: a token is drawn, is_semantic_class is       *)
(* applied to it.                                                          *)
(***************************************************************************)
TokAlphabet == {"t", "a", "b", "-", "4", "X"}

NamedTokens ==
    ColorNames \cup SizeNames \cup AlignNames \cup TextStyleNames
        \cup UiStateWords \cup SEMANTIC_CLASS_PATTERNS
        \cup {<<"m","t","-","4">>, <<"m","a","r","g","i","n","1","0">>,
              <<"t","a","b","-","4">>, <<"T","A","B","-","4">>, <<"n","a","v","1">>,
              <<"R","e","d">>, <<"n","a","v","_","b","a","r","-","1","2">>,
              <<"p","r","i","m","a","r","y","-","b","u","t","t","o","n">>,
              <<"h","C","K","h","j","F">>, <<"d","Y","p","y","E","D">>,
              <<"s","c","-","a","b","c">>, <<"t","a","b","-","e","r","r","o","r">>,
              <<"r","e","a","c","t","-","t","a","b","s","_","_","t","a","b">>,
              <<"A","c","t","i","v","e">>, <<"1","2","3","4","5">>,
              <<"c","a","r","d">>, <<"x","-","y">>}

Tokens == SeqUpTo(TokAlphabet, MaxTokLen) \cup NamedTokens

InitClass ==
    /\ config \in {StructuralHTMLConverter(u, FALSE) : u \in BOOLEAN}
    /\ token \in Tokens
    /\ phase = "token"
    /\ verdict = FALSE
    /\ doc = <<>>
    /\ out = None
    /\ out2 = None

Classify ==
    /\ phase = "token"
    /\ verdict' = is_semantic_class(token)
    /\ phase' = "classified"
    /\ UNCHANGED <<config, doc, out, out2, token>>

NextClass == Classify

SpecClass == InitClass /\ [][NextClass]_vars

(***************************************************************************)
(* The classifier under both settings: a token classified by a converter   *)
(* without ultra_aggressive is classified again by one constructed with it *)
(* (main, line 592: ultra_aggressive=args.ultra_aggressive).               *)
(***************************************************************************)
ClassifyUltra ==
    /\ phase = "classified"
    /\ ~config.ultra_aggressive
    /\ config' = StructuralHTMLConverter(TRUE, config.simplify_spans)
    /\ token' = token
    /\ verdict' = is_semantic_class(token)'
    /\ phase' = "reclassified"
    /\ UNCHANGED <<doc, out, out2>>

NextUltra == Classify \/ ClassifyUltra

SpecUltra == InitClass /\ [][NextUltra]_vars

(***************************************************************************)
(* The attribute loop on its own: an element with one attribute, a class   *)
(* list as the parser gives it or a data-* attribute, is converted by the  *)
(* structural converter, or the attribute is put to                        *)
(* should_preserve_attribute as line 250 does.                             *)
(***************************************************************************)
ClassTokens ==
    {<<"d","Y","p","y","E","D">>, <<"a","1","b","2","c","3">>, <<"n","a","v">>,
     <<"m","t","-","4">>}

ClassLists == SeqUpTo(ClassTokens, MaxClassToks) \ {<<>>}

DataSuffixes ==
    {<<>>, <<"x">>, <<"i","d">>, <<"r","o","l","e">>, <<"t","y","p","e">>,
     <<"s","e","c","t","i","o","n">>, <<"i","t","e","m">>, <<"t","e","s","t","i","d">>,
     <<"t","e","s","t","i","d","s">>, <<"t","e","s","t">>, <<"v","a","l","i","d">>,
     <<"u","s","e","r","-","i","d">>, <<"r","o","-","l","e">>, <<"t","o","o","l","t","i","p">>}

DataValues == {<<>>, <<"v">>, <<" ", "v">>, <<"r","e","a","c","t","-","t","a","b","s","-","1">>}

OneAttrs ==
    {ListAttr(ATTR_class, toks) : toks \in ClassLists}
        \cup {StrAttr(DATA_ATTRS_PREFIX \o sfx, v) : sfx \in DataSuffixes, v \in DataValues}

AttrDocs == {<<Elem(t, <<a>>, <<>>)>> : t \in {TAG_div, TAG_span, TAG_a}, a \in OneAttrs}

InitAttr ==
    /\ config \in StructuralConfigs
    /\ doc \in AttrDocs
    /\ phase = "parsed"
    /\ out = None
    /\ out2 = None
    /\ token = <<>>
    /\ verdict = FALSE

\* line 250: the attribute loop asks should_preserve_attribute
PreserveAttr ==
    /\ phase = "parsed"
    /\ config.structural
    /\ verdict' = should_preserve_attribute(doc[1].attrs[1], doc[1].tag)
    /\ phase' = "filtered"
    /\ UNCHANGED <<config, doc, out, out2, token>>

NextAttr == ConvertStructural \/ PreserveAttr

SpecAttr == InitAttr /\ [][NextAttr]_vars

(***************************************************************************)
(* Metadata: a head element holding titles and meta elements is converted  *)
(* by the semantic-mapping converter.                                      *)
(***************************************************************************)
TAG_title == <<"t","i","t","l","e">>
ATTR_name == <<"n","a","m","e">>
ATTR_property == <<"p","r","o","p","e","r","t","y">>
ATTR_content == <<"c","o","n","t","e","n","t">>

HeadKids ==
    {Elem(TAG_title, <<>>, <<TextNode(<<"a">>)>>),
     Elem(TAG_title, <<>>, <<TextNode(<<" ", "b">>)>>),
     Elem(TAG_meta, <<StrAttr(ATTR_name, <<"k">>), StrAttr(ATTR_content, <<"v">>)>>, <<>>),
     Elem(TAG_meta, <<StrAttr(ATTR_name, <<"k">>), StrAttr(ATTR_content, <<"w">>)>>, <<>>),
     Elem(TAG_meta, <<StrAttr(ATTR_property, <<"k">>), StrAttr(ATTR_content, <<"u">>)>>, <<>>),
     Elem(TAG_meta, <<StrAttr(ATTR_name, <<"j">>), StrAttr(ATTR_content, <<"v">>)>>, <<>>),
     Elem(TAG_meta, <<StrAttr(ATTR_name, TAG_title), StrAttr(ATTR_content, <<"t">>)>>, <<>>),
     Elem(TAG_meta, <<StrAttr(ATTR_name, <<"k">>)>>, <<>>),
     Elem(TAG_noscript, <<>>,
          <<Elem(TAG_meta, <<StrAttr(ATTR_name, <<"k">>), StrAttr(ATTR_content, <<"n">>)>>,
                 <<>>)>>)}

MetaDocs == {<<Elem(TAG_head, <<>>, ks)>> : ks \in SeqUpTo(HeadKids, MaxMetas)}

InitMeta ==
    /\ config \in SemanticConfigs
    /\ doc \in MetaDocs
    /\ phase = "parsed"
    /\ out = None
    /\ out2 = None
    /\ token = <<>>
    /\ verdict = FALSE

NextMeta == ConvertSemantic

SpecMeta == InitMeta /\ [][NextMeta]_vars

(***************************************************************************)
(* What the claims speak of.                                               *)
(***************************************************************************)
\* an output element and everything below it
RECURSIVE Descendants(_)
Descendants(e) == {e} \cup UNION {Descendants(e.kids[i]) : i \in DOMAIN e.kids}

\* the output element the tree builder fills: the root (structural), the
\* content element (semantic mapping)
Container(root) == IF config.structural THEN root ELSE root.kids[Len(root.kids)]

\* the output elements process_element created
BuiltElements(root) == Descendants(Container(root)) \ {Container(root)}

\* the paths of all nodes of the input
AllPaths(nodes) == Range(PathsUnder(nodes, 1, <<>>))

IsElement(nodes, p, tag) == NodeAt(nodes, p).kind = "elem" /\ NodeAt(nodes, p).tag = tag

\* the node at p is, or lies below, an element of the removal set
InRemovedSubtree(nodes, p) ==
    \E k \in 1..Len(p) :
        LET n == NodeAt(nodes, SubSeq(p, 1, k))
        IN  n.kind = "elem" /\ n.tag \in REMOVE_TAGS

\* p comes before q in document order
PathBefore(p, q) ==
    \/ Len(p) < Len(q) /\ SubSeq(q, 1, Len(p)) = p
    \/ \E k \in 1..Len(p) :
            /\ k <= Len(q)
            /\ SubSeq(p, 1, k - 1) = SubSeq(q, 1, k - 1)
            /\ p[k] < q[k]

Converted == phase \in {"converted", "reconverted"}

(***************************************************************************)
(* C1.                                                                     *)
(***************************************************************************)
\* C1 (as claimed): after a conversion by either converter, no output element
\* was created for an input element that is in the removal set or lies below
\* one, and no output text took in an input text node below one; the meta
\* elements of the metadata block included.
C1_NothingFromRemovedSubtrees ==
    Converted =>
        \A o \in Descendants(out) :
            /\ o.src /= <<>> => ~InRemovedSubtree(doc, o.src)
            /\ \A k \in DOMAIN o.tsrc : ~InRemovedSubtree(doc, o.tsrc[k])

(***************************************************************************)
(* C2.                                                                     *)
(***************************************************************************)
OversizedImg(n) ==
    /\ n.kind = "elem"
    /\ n.tag = TAG_img
    /\ StartsWith(GetAttr(n, ATTR_src), <<"d","a","t","a",":">>)
    /\ Len(GetAttr(n, ATTR_src)) > DataUrlLimit

\* C2 (as claimed): in both variants no output element is created for an img
\* whose src starts with "data:" and is longer than 1000 characters, and every
\* other img outside the removed subtrees does get its output element.
C2_OversizedImgOmitted ==
    Converted =>
        /\ \A o \in BuiltElements(out) : ~OversizedImg(NodeAt(doc, o.src))
        /\ \A p \in AllPaths(doc) :
                /\ IsElement(doc, p, TAG_img)
                /\ ~OversizedImg(NodeAt(doc, p))
                /\ ~InRemovedSubtree(doc, p)
                => \E o \in BuiltElements(out) : o.src = p

(***************************************************************************)
(* C3.                                                                     *)
(***************************************************************************)
\* C3 (as claimed): every input element with a non-empty id value v has an
\* output element of its own that carries id = v, under every configuration.
C3_IdNeverDropped ==
    Converted =>
        \A p \in AllPaths(doc) :
            LET n == NodeAt(doc, p)
            IN  n.kind = "elem" /\ HasInAttr(n, ATTR_id) /\ GetAttr(n, ATTR_id) /= <<>>
                => \E o \in Descendants(out) :
                        o.src = p /\ HasAttr(o, ATTR_id) /\ AttrOf(o, ATTR_id) = GetAttr(n, ATTR_id)

\* the value is "react-tabs-", one or more digits, and nothing more but
\* possibly one final newline
ReactTabsShape(v) ==
    LET w == IF v /= <<>> /\ v[Len(v)] = "\n" THEN SubSeq(v, 1, Len(v) - 1) ELSE v
    IN  /\ StartsWith(w, <<"r","e","a","c","t","-","t","a","b","s","-">>)
        /\ IsDigitStr(Slice(w, 12, Len(w)))

\* C3 (amended): every output element the tree builder creates for an input
\* element with an id attribute of value v carries id = v stripped of its
\* surrounding whitespace, when that is not empty; it carries no id when the
\* stripped value is empty, or when the structural converter runs
\* ultra-aggressive and v has the shape react-tabs-<digits>.
C3_IdKeptOnCreatedElements ==
    Converted =>
        \A o \in BuiltElements(out) :
            LET n == NodeAt(doc, o.src)
                v == GetAttr(n, ATTR_id)
                dropped == \/ Strip(v) = <<>>
                           \/ /\ config.structural
                              /\ config.ultra_aggressive
                              /\ ReactTabsShape(v)
            IN  IF HasInAttr(n, ATTR_id) /\ ~dropped
                THEN HasAttr(o, ATTR_id) /\ AttrOf(o, ATTR_id) = Strip(v)
                ELSE ~HasAttr(o, ATTR_id)

\* C3 witness: an ultra-aggressive structural conversion created an element
\* for an input whose id is " x" and gave it id = "x".
C3_Witness ==
    /\ Converted
    /\ config.structural
    /\ config.ultra_aggressive
    /\ \E o \in BuiltElements(out) :
            /\ GetAttr(NodeAt(doc, o.src), ATTR_id) = <<" ", "x">>
            /\ HasAttr(o, ATTR_id)
            /\ AttrOf(o, ATTR_id) = <<"x">>

(***************************************************************************)
(* C4 and C5.                                                              *)
(***************************************************************************)
\* word characters, a hyphen, digits
WordNumberShape(t) ==
    \E k \in 2..(Len(t) - 1) :
        /\ t[k] = "-"
        /\ \A i \in 1..(k - 1) : t[i] \in WordChars
        /\ \A i \in (k + 1)..Len(t) : t[i] \in DigitChars
\* lower-case letters, then digits
LettersThenDigitsShape(t) ==
    \E k \in 1..(Len(t) - 1) :
        /\ \A i \in 1..k : t[i] \in LowerChars
        /\ \A i \in (k + 1)..Len(t) : t[i] \in DigitChars
BasicStylingShape(t) ==
    \/ WordNumberShape(t)
    \/ LettersThenDigitsShape(t)
    \/ t \in ColorNames \cup SizeNames \cup AlignNames \cup TextStyleNames

\* C4: a token whose lower-cased form has a basic styling shape is dropped by
\* is_semantic_class, with ultra_aggressive on and off, whatever semantic
\* marker it contains.
C4_StylingTokensDropped ==
    phase = "classified" /\ BasicStylingShape(Lower(token)) => verdict = FALSE

\* C4 witness: "TAB-4", which contains the marker "tab" once lower-cased, was
\* classified without ultra_aggressive and dropped.
C4_Witness ==
    /\ phase = "classified"
    /\ ~config.ultra_aggressive
    /\ token = <<"T","A","B","-","4">>
    /\ Contains(Lower(token), <<"t","a","b">>)
    /\ verdict = FALSE

\* C5: a token of at most two characters, and a token of digits only, is
\* dropped by is_semantic_class under every configuration.
C5_ShortOrNumericDropped ==
    /\ phase = "classified"
    /\ \/ Len(token) <= 2
       \/ \A i \in DOMAIN token : token[i] \in DigitChars
    => verdict = FALSE

\* C5 witness: a two-letter token that no styling pattern matches was
\* classified and dropped.
C5_Witness ==
    /\ phase = "classified"
    /\ token = <<"a", "b">>
    /\ ~BasicStylingShape(token)
    /\ verdict = FALSE

(***************************************************************************)
(* C6.                                                                     *)
(***************************************************************************)
\* C6 (as claimed): converting the serialised output again, with the same
\* converter and options, yields the same serialised output.
C6_Idempotent ==
    phase = "reconverted" => tostring(out2) = tostring(out)

(***************************************************************************)
(* C7.                                                                     *)
(***************************************************************************)
\* C7: in semantic-mapping mode every a element outside the removed subtrees
\* gets an output element, and every output element made for an a element has
\* an href: the input's value stripped, and "" when the input has no href or
\* one that strips to nothing.
C7_AnchorsHaveHref ==
    Converted /\ ~config.structural =>
        /\ \A o \in BuiltElements(out) :
                LET n == NodeAt(doc, o.src)
                IN  n.tag = TAG_a =>
                        /\ HasAttr(o, ATTR_href)
                        /\ AttrOf(o, ATTR_href) =
                              (IF HasInAttr(n, ATTR_href) THEN Strip(GetAttr(n, ATTR_href))
                               ELSE <<>>)
        /\ \A p \in AllPaths(doc) :
                IsElement(doc, p, TAG_a) /\ ~InRemovedSubtree(doc, p)
                => \E o \in BuiltElements(out) : o.src = p

\* C7 witness: a semantic-mapping conversion of an a element whose href is
\* one blank gave its output element href = "".
C7_Witness ==
    /\ Converted
    /\ ~config.structural
    /\ \E o \in BuiltElements(out) :
            /\ NodeAt(doc, o.src).tag = TAG_a
            /\ HasInAttr(NodeAt(doc, o.src), ATTR_href)
            /\ GetAttr(NodeAt(doc, o.src), ATTR_href) = <<" ">>
            /\ HasAttr(o, ATTR_href)
            /\ AttrOf(o, ATTR_href) = <<>>

(***************************************************************************)
(* C8.                                                                     *)
(***************************************************************************)
\* C8 (as claimed): in semantic-mapping mode an output element that
\* process_element created and that has no child element and no text has
\* the empty string as its text, not None.
C8_EmptyElementsHaveEmptyText ==
    Converted /\ ~config.structural =>
        \A o \in BuiltElements(out) :
            o.kids = <<>> /\ ~Truthy(o.text) => o.text = <<>>

(***************************************************************************)
(* C9.                                                                     *)
(***************************************************************************)
NormalizedText(t) ==
    /\ t /= <<>> => t[1] \notin SpaceChars /\ t[Len(t)] \notin SpaceChars
    /\ \A i \in 1..(Len(t) - 1) : ~(t[i] \in SpaceChars /\ t[i + 1] \in SpaceChars)

\* C9 (as claimed): after a conversion by either converter the text of every
\* output element has no leading or trailing whitespace and no two
\* whitespace characters in a row.
C9_TextNormalized ==
    Converted =>
        \A o \in Descendants(out) : o.text /= None => NormalizedText(o.text)

(***************************************************************************)
(* C10.                                                                    *)
(***************************************************************************)
\* C10 (as claimed): under every output element the tree builder fills, the
\* child elements stand in the order of their input elements, the text
\* fragments in the order of their input text nodes, and no text that follows
\* a child's input element in the document stands before that child in the
\* output (an element's text stands before all its children).
C10_DocumentOrderKept ==
    Converted =>
        \A o \in BuiltElements(out) \cup {Container(out)} :
            /\ \A i, j \in DOMAIN o.kids :
                    i < j => PathBefore(o.kids[i].src, o.kids[j].src)
            /\ \A i, j \in DOMAIN o.tsrc : i < j => PathBefore(o.tsrc[i], o.tsrc[j])
            /\ \A i \in DOMAIN o.kids, k \in DOMAIN o.tsrc :
                    ~PathBefore(o.kids[i].src, o.tsrc[k])

(***************************************************************************)
(* C11.                                                                    *)
(***************************************************************************)
\* one token, six characters, letters and digits only
SingleHashToken(a) ==
    /\ a.isList
    /\ Len(a.list) = 1
    /\ Len(a.list[1]) = 6
    /\ \A i \in 1..6 : a.list[1][i] \in LowerChars \cup UpperChars \cup DigitChars

\* C11 (as claimed): with ultra-aggressive off, an element whose class
\* attribute is exactly one alphanumeric token of six characters gets no
\* class attribute in the structural output; and the whole-attribute rule
\* never drops a class attribute of two or more tokens.
C11_HashClassDroppedWithoutUltra ==
    Converted /\ config.structural =>
        \A o \in BuiltElements(out) :
            LET n == NodeAt(doc, o.src)
            IN  \A i \in DOMAIN n.attrs :
                    n.attrs[i].name = ATTR_class =>
                        /\ ~config.ultra_aggressive /\ SingleHashToken(n.attrs[i])
                                => ~HasAttr(o, ATTR_class)
                        /\ n.attrs[i].isList /\ Len(n.attrs[i].list) >= 2
                                => ~should_remove_single_hash_class(n.attrs[i])

(***************************************************************************)
(* C12.                                                                    *)
(***************************************************************************)
\* the token ends in three or more capitals followed by two or more small letters
EndsMixedCase(t) ==
    \E i, j \in 1..Len(t) :
        /\ j >= i + 3
        /\ Len(t) >= j + 1
        /\ \A k \in i..(j - 1) : t[k] \in UpperChars
        /\ \A k \in j..Len(t) : t[k] \in LowerChars
\* two to five small letters, then two to five capitals
SmallThenCapitals(t) ==
    \E k \in 2..5 :
        /\ Len(t) - k \in 2..5
        /\ \A i \in 1..k : t[i] \in LowerChars
        /\ \A i \in (k + 1)..Len(t) : t[i] \in UpperChars
\* the token, as written, matches an entry of the extended noise table
NoiseShape(t) ==
    \/ t \in UiStateWords
    \/ /\ Len(t) >= 4
       /\ SubSeq(t, 1, 3) = <<"s","c","-">>
       /\ \A i \in 4..Len(t) : t[i] \in LowerChars \cup UpperChars \cup DigitChars \cup {"_", "-"}
    \/ /\ Len(t) >= 12
       /\ SubSeq(t, 1, 12) = <<"r","e","a","c","t","-","t","a","b","s","_","_">>
    \/ t \in {<<"t","a","b","-">> \o w : w \in TabStates}
    \/ EndsMixedCase(t)
    \/ SmallThenCapitals(t)
    \/ Len(t) = 6 /\ \A i \in 1..6 : t[i] \in LowerChars \cup UpperChars

C12_NoiseDropped ==
    phase \in {"classified", "reclassified"} /\ config.ultra_aggressive /\ NoiseShape(token)
        => verdict = FALSE

C12_DropsCarryOver ==
    phase = "classified" /\ phase' = "reclassified" /\ verdict = FALSE => verdict' = FALSE

\* C12: with ultra_aggressive on, every token that matches an entry of the
\* extended noise table as written is dropped by is_semantic_class, whatever
\* semantic marker it contains; and a token dropped without ultra_aggressive
\* is dropped with it as well.
C12_NoiseDominates == [](C12_NoiseDropped) /\ [][C12_DropsCarryOver]_vars

\* C12 witness: "active", itself a semantic marker and kept without
\* ultra_aggressive, was classified again with ultra_aggressive and dropped.
C12_Witness ==
    /\ phase = "reclassified"
    /\ config.ultra_aggressive
    /\ token = <<"a","c","t","i","v","e">>
    /\ NoiseShape(token)
    /\ Contains(Lower(token), <<"a","c","t","i","v","e">>)
    /\ verdict = FALSE

(***************************************************************************)
(* C13.                                                                    *)
(***************************************************************************)
\* the attribute the filter was asked about
AskedAttr == doc[1].attrs[1]

IsDataName(name) == Len(name) >= 5 /\ SubSeq(name, 1, 5) = <<"d","a","t","a","-">>

\* w occurs in s
Occurs(w, s) == \E i \in 0..(Len(s) - Len(w)) : SubSeq(s, i + 1, i + Len(w)) = w

\* the part of the name after "data-" holds id, role, type, section or item
SuffixHasMarker(name) ==
    LET suffix == SubSeq(name, 6, Len(name))
    IN  \/ Occurs(<<"i","d">>, suffix)
        \/ Occurs(<<"r","o","l","e">>, suffix)
        \/ Occurs(<<"t","y","p","e">>, suffix)
        \/ Occurs(<<"s","e","c","t","i","o","n">>, suffix)
        \/ Occurs(<<"i","t","e","m">>, suffix)

\* C13: in structural mode, for an attribute whose name starts with "data-",
\* whatever its value, its owner's tag and the configuration,
\* should_preserve_attribute answers true exactly when the name is not
\* "data-testid" and the part after "data-" contains one of id, role, type,
\* section, item.
C13_DataAttrsKeptByMarker ==
    phase = "filtered" /\ IsDataName(AskedAttr.name) =>
        verdict = (/\ AskedAttr.name /= <<"d","a","t","a","-","t","e","s","t","i","d">>
                   /\ SuffixHasMarker(AskedAttr.name))

\* C13 witness: data-testid, whose suffix contains "id", was put to the
\* filter and refused.
C13_Witness ==
    /\ phase = "filtered"
    /\ AskedAttr.name = <<"d","a","t","a","-","t","e","s","t","i","d">>
    /\ SuffixHasMarker(AskedAttr.name)
    /\ verdict = FALSE

(***************************************************************************)
(* C14.                                                                    *)
(***************************************************************************)
\* the nodes below the head element, in document order
BelowHead == PathsUnder(doc[1].kids, 1, <<1>>)

\* the key a meta element supplies: its name, or else its property
SuppliedKey(n) ==
    IF GetAttr(n, ATTR_name) /= <<>> THEN GetAttr(n, ATTR_name) ELSE GetAttr(n, ATTR_property)

\* the key-value pairs the head supplies, in the order extract_metadata meets
\* them: the first title, then the meta elements with a key and a content
Supplies ==
    LET IsTitle(p) == IsElement(doc, p, TAG_title)
        IsSupplier(p) ==
            /\ IsElement(doc, p, TAG_meta)
            /\ SuppliedKey(NodeAt(doc, p)) /= <<>>
            /\ GetAttr(NodeAt(doc, p), ATTR_content) /= <<>>
        titles == SelectSeq(BelowHead, IsTitle)
        metas == SelectSeq(BelowHead, IsSupplier)
    IN  (IF titles = <<>> THEN <<>>
         ELSE <<[key |-> TAG_title,
                 value |-> clean_text(get_text(NodeAt(doc, titles[1])))]>>)
        \o [i \in DOMAIN metas |->
                [key |-> SuppliedKey(NodeAt(doc, metas[i])),
                 value |-> GetAttr(NodeAt(doc, metas[i]), ATTR_content)]]

\* the children of the output's metadata element, none when there is no such element
MetadataBlock ==
    IF out.kids[1].tag = <<"m","e","t","a","d","a","t","a">> THEN out.kids[1].kids ELSE <<>>

FirstSupply(key) == CHOOSE i \in DOMAIN Supplies :
    Supplies[i].key = key /\ \A j \in 1..(i - 1) : Supplies[j].key /= key
LastSupply(key) == CHOOSE i \in DOMAIN Supplies :
    Supplies[i].key = key /\ \A j \in (i + 1)..Len(Supplies) : Supplies[j].key /= key

\* one entry per distinct key, in the order the keys first occur
OneEntryPerKey ==
    /\ Len(MetadataBlock) = Cardinality({Supplies[i].key : i \in DOMAIN Supplies})
    /\ \A i \in DOMAIN MetadataBlock :
            /\ MetadataBlock[i].tag = TAG_meta
            /\ HasAttr(MetadataBlock[i], ATTR_name)
            /\ \E k \in DOMAIN Supplies : Supplies[k].key = AttrOf(MetadataBlock[i], ATTR_name)
    /\ \A i, j \in DOMAIN MetadataBlock :
            i < j => FirstSupply(AttrOf(MetadataBlock[i], ATTR_name))
                        < FirstSupply(AttrOf(MetadataBlock[j], ATTR_name))

\* C14 (as claimed): in semantic-mapping mode the metadata block has one
\* entry per distinct key, and the value of an entry is the one of the first
\* element in document order that supplies its key.
C14_FirstOccurrenceWins ==
    Converted /\ ~config.structural /\ doc[1].tag = TAG_head =>
        /\ OneEntryPerKey
        /\ \A i \in DOMAIN MetadataBlock :
                MetadataBlock[i].text
                    = Supplies[FirstSupply(AttrOf(MetadataBlock[i], ATTR_name))].value

\* C14 (amended): in semantic-mapping mode the metadata block has one entry
\* per distinct key, in the order in which the keys first occur, and the
\* value of an entry is the one of the last supplier of its key, the
\* suppliers being the first title below the head (key "title", met first)
\* and then, in document order, every meta element anywhere below the head
\* that has a non-empty name or property and a non-empty content.
C14_LastOccurrenceWins ==
    Converted /\ ~config.structural /\ doc[1].tag = TAG_head =>
        /\ OneEntryPerKey
        /\ \A i \in DOMAIN MetadataBlock :
                MetadataBlock[i].text
                    = Supplies[LastSupply(AttrOf(MetadataBlock[i], ATTR_name))].value

\* C14 witness: a head with two meta elements of the same key and different
\* contents was converted, and the one entry of that key has the second's
\* content.
C14_Witness ==
    /\ Converted
    /\ ~config.structural
    /\ doc[1].tag = TAG_head
    /\ \E i, j \in DOMAIN Supplies :
            /\ i < j
            /\ Supplies[i].key = Supplies[j].key
            /\ Supplies[i].value /= Supplies[j].value
            /\ j = LastSupply(Supplies[j].key)
            /\ \E e \in DOMAIN MetadataBlock :
                    /\ AttrOf(MetadataBlock[e], ATTR_name) = Supplies[j].key
                    /\ MetadataBlock[e].text = Supplies[j].value

=============================================================================
